---- MODULE Spec2Model ----
(***************************************************************************)
(* Model of the block archiver service of bsc-client                       *)
(* (package core/blockarchiver):                                           *)
(*   - RequestLock (types.go): rangeMap, lookupMap and the mutex mu;       *)
(*   - BlockArchiverService (service.go): the three caches and the tasks   *)
(*     running GetBlockByNumber / GetBlockByHash concurrently.             *)
(* The specifications share the variables:                                 *)
(*   SpecLock       a client calling AddRange / RemoveRange on a           *)
(*                  RequestLock;                                           *)
(*   Spec           NumTasks tasks calling the service over caches that    *)
(*                  never fill, one step per access to shared state (lock  *)
(*                  call, cache call, remote call, sleep);                 *)
(*   SpecEvict      the same over caches of capacity SmallCacheSize that   *)
(*                  BlockChain writes to as well;                          *)
(*   SpecLockSteps  tasks calling the lock, one step per statement;        *)
(*   SpecSteps      tasks calling the service, the lock's methods one step *)
(*                  per statement.                                         *)
(***************************************************************************)
EXTENDS Integers, Sequences, FiniteSets, Bags, TLC

(* ------------------------------ bounds -------------------------------- *)

\* width of an identifier in bits (uint64 in the code, scaled down)
UintBits == 3

\* the stand-alone lock client draws from and to in 0..MaxArg, or MaxUint
MaxArg == 2

\* ranges the stand-alone lock client keeps registered at once
MaxOutstanding == 2

\* tasks calling the service concurrently
NumTasks == 2

\* capacity of a cache that is small enough to evict
SmallCacheSize == 1

\* calls of the service one task makes
MaxCalls == 1

\* bundles the remote archive serves
NumBundles == 2

\* blocks per bundle
BundleSize == 2

(* --------------------------- identifiers ------------------------------ *)

RECURSIVE Pow2(_)
Pow2(n) == IF n = 0 THEN 1 ELSE 2 * Pow2(n - 1)

Modulus == Pow2(UintBits)

MaxUint == Modulus - 1

Uint == 0 .. MaxUint

\* i++ on an unsigned identifier
Inc(i) == (i + 1) % Modulus

VARIABLES
    rangeMap,     \* RequestLock.rangeMap : from -> Range
    lookupMap,    \* RequestLock.lookupMap : identifier -> TRUE
    mu,           \* RequestLock.mu : "unlocked", or "locked" for good by a loop that never ends
    hashCache,    \* BlockArchiverService.hashCache : number -> hash
    bodyCache,    \* BlockArchiverService.bodyCache : hash -> body
    headerCache,  \* BlockArchiverService.headerCache : hash -> header
    task,         \* per task: where it is in its call, its locals and its result
    outstanding,  \* history: bag of the ranges the lock client added and has not removed
    capacity,     \* capacity of hashCache, bodyCache, headerCache
    recency,      \* per cache: its keys, the most recently used first
    last          \* history: the lock client's last completed call

lockVars == <<rangeMap, lookupMap, mu>>

cacheVars == <<hashCache, bodyCache, headerCache, capacity, recency>>

clientVars == <<outstanding, last>>

vars == <<rangeMap, lookupMap, mu, hashCache, bodyCache, headerCache, task,
          capacity, recency, outstanding, last>>

(* ----------------------------- RequestLock ---------------------------- *)

Range(from, to) == [from |-> from, to |-> to]

EmptyMap == [k \in {} |-> TRUE]

\* NewRequestLock
NewRequestLock ==
    /\ rangeMap = EmptyMap
    /\ lookupMap = EmptyMap
    /\ mu = "unlocked"

\* m[k] = v
MapPut(m, k, v) ==
    IF k \in DOMAIN m THEN [m EXCEPT ![k] = v] ELSE (k :> v) @@ m

\* delete(m, k)
MapDelete(m, k) ==
    IF k \in DOMAIN m THEN [x \in DOMAIN m \ {k} |-> m[x]] ELSE m

\* mutant of IsWithinAnyRange: one flag for all fetches, true while any
\* range is registered
IsWithinAnyRangeAtAll(num) == DOMAIN lookupMap # {}

\* IsWithinAnyRange: _, exists := rc.lookupMap[num]
IsWithinAnyRange(num) == num \in DOMAIN lookupMap

\* mutant of AddLoopCond: the loop stops one identifier short of to
AddLoopCondStrict(i, to) == i < to

\* loop condition of AddRange: i <= to
AddLoopCond(i, to) == i <= to

\* mutant of RemoveLoopCond: the loop stops one identifier short of to
RemoveLoopCondStrict(i, to) == i < to

\* loop condition of RemoveRange: i <= to
RemoveLoopCond(i, to) == i <= to

\* for i := from; i <= to; i++ { rc.lookupMap[i] = true }
\* fuel counts the iterations left before the counter has taken every value
\* of Uint and come back: a loop still running then never ends.
RECURSIVE AddLoop(_, _, _, _)
AddLoop(lm, i, to, fuel) ==
    IF ~AddLoopCond(i, to) THEN [map |-> lm, returns |-> TRUE]
    ELSE IF fuel = 0 THEN [map |-> lm, returns |-> FALSE]
    ELSE AddLoop(MapPut(lm, i, TRUE), Inc(i), to, fuel - 1)

\* for i := from; i <= to; i++ { delete(rc.lookupMap, i) }
RECURSIVE RemoveLoop(_, _, _, _)
RemoveLoop(lm, i, to, fuel) ==
    IF ~RemoveLoopCond(i, to) THEN [map |-> lm, returns |-> TRUE]
    ELSE IF fuel = 0 THEN [map |-> lm, returns |-> FALSE]
    ELSE RemoveLoop(MapDelete(lm, i), Inc(i), to, fuel - 1)

\* AddRange(from, to): the whole call under rc.mu. When the loop never ends
\* the deferred Unlock never runs and the mutex stays locked.
AddRange(from, to) ==
    LET r == AddLoop(lookupMap, from, to, Modulus + 1) IN
    /\ mu = "unlocked"
    /\ rangeMap' = MapPut(rangeMap, from, Range(from, to))
    /\ lookupMap' = r.map
    /\ mu' = IF r.returns THEN "unlocked" ELSE "locked"

\* RemoveRange(from, to): the whole call under rc.mu.
RemoveRange(from, to) ==
    LET r == RemoveLoop(lookupMap, from, to, Modulus + 1) IN
    /\ mu = "unlocked"
    /\ rangeMap' = MapDelete(rangeMap, from)
    /\ lookupMap' = r.map
    /\ mu' = IF r.returns THEN "unlocked" ELSE "locked"

(* -------------------------- the remote archive ------------------------ *)

NumBlocks == NumBundles * BundleSize

\* the block numbers the archive holds
Numbers == 0 .. NumBlocks - 1

\* the hash of block n
HashOf(n) == <<"hash", n>>

\* a hash no archived block has
UnknownHash == HashOf(NumBlocks)

\* common.Hash{}, the zero value of a hash
ZeroHash == HashOf(0 - 1)

Hashes == {HashOf(n) : n \in Numbers} \cup {UnknownHash}

\* a wire block as the remote returns it; convertible says whether
\* convertBlock accepts it
Block(n, convertible) == [number |-> n, hash |-> HashOf(n), convertible |-> convertible]

\* the bundle of the archive that holds blockNum
BundleStart(blockNum) == (blockNum \div BundleSize) * BundleSize

BundleEnd(blockNum) == BundleStart(blockNum) + BundleSize - 1

\* one part of a bundle name split at "_": empty says the part is the
\* empty string; value is the number its characters after the first one
\* spell, NotANumber when strconv.ParseUint refuses them
NotANumber == 0 - 1

Part(value) == [empty |-> FALSE, value |-> value]

EmptyPart == [empty |-> TRUE, value |-> NotANumber]

\* the answer to GET .../bundle/name: ok is false when the request fails,
\* the status is not 200 or the body is not the expected JSON; parts is
\* strings.Split(bundleName, "_")
NameResponse(ok, parts) == [ok |-> ok, parts |-> parts]

\* the name of the bundle [start, end], "blocks_s<start>_e<end>"
BundleName(start, end) ==
    NameResponse(TRUE, <<Part(NotANumber), Part(start), Part(end)>>)

\* the answers the remote may give for blockNum: a failure; the name of the
\* bundle of blockNum; names that split into too few parts, have an empty
\* part, or do not spell a number; names of ranges that are not the bundle
\* of blockNum: end before start, another bundle, all bundles together, a
\* range that ends at the largest identifier
NameResponses(blockNum) ==
    {NameResponse(FALSE, <<>>),
     BundleName(BundleStart(blockNum), BundleEnd(blockNum)),
     NameResponse(TRUE, <<Part(NotANumber)>>),
     NameResponse(TRUE, <<Part(NotANumber), Part(BundleStart(blockNum))>>),
     NameResponse(TRUE, <<Part(NotANumber), EmptyPart, Part(BundleEnd(blockNum))>>),
     NameResponse(TRUE, <<Part(NotANumber), Part(BundleStart(blockNum)), EmptyPart>>),
     NameResponse(TRUE, <<Part(NotANumber), Part(NotANumber), Part(BundleEnd(blockNum))>>),
     NameResponse(TRUE, <<Part(NotANumber), Part(BundleStart(blockNum)), Part(Modulus)>>),
     BundleName(BundleEnd(blockNum), BundleStart(blockNum)),
     BundleName(BundleStart(blockNum + BundleSize) % NumBlocks,
                BundleEnd(blockNum + BundleSize) % NumBlocks),
     BundleName(0, NumBlocks - 1),
     BundleName(MaxUint, MaxUint)}

\* strconv.ParseUint(part[1:], 10, 64): an error unless the characters
\* spell a number of the width of an identifier
ParseUint(part) ==
    IF part.value \in Uint THEN [err |-> FALSE, value |-> part.value]
    ELSE [err |-> TRUE, value |-> 0]

\* Client.GetBundleBlocksRange, given the remote's answer: (0, 0, err),
\* (startSlot, endSlot, nil), or a panic where parts[1], parts[2] or the
\* slice [1:] of an empty part is out of range
GetBundleBlocksRange(resp) ==
    LET failed == [err |-> TRUE, panic |-> FALSE, start |-> 0, end |-> 0]
        panics == [err |-> FALSE, panic |-> TRUE, start |-> 0, end |-> 0]
        parts == resp.parts IN
    IF ~resp.ok THEN failed
    ELSE IF Len(parts) < 2 \/ parts[2].empty THEN panics
    ELSE IF ParseUint(parts[2]).err THEN failed
    ELSE IF Len(parts) < 3 \/ parts[3].empty THEN panics
    ELSE IF ParseUint(parts[3]).err THEN failed
    ELSE [err |-> FALSE, panic |-> FALSE, start |-> ParseUint(parts[2]).value,
          end |-> ParseUint(parts[3]).value]

\* the sub-sequence of seq whose positions are in keep
RECURSIVE SubSeq2(_, _, _)
SubSeq2(seq, keep, i) ==
    IF i > Len(seq) THEN <<>>
    ELSE (IF i \in keep THEN <<seq[i]>> ELSE <<>>) \o SubSeq2(seq, keep, i + 1)

\* the whole bundle of blockNum, in order
FullBundle(blockNum) ==
    [i \in 1 .. BundleSize |-> Block(BundleStart(blockNum) + i - 1, TRUE)]

\* the lists the remote may answer with: the bundle or any part of it (the
\* empty list included), or the bundle with one block convertBlock rejects
BundleLists(blockNum) ==
    LET full == FullBundle(blockNum) IN
    {SubSeq2(full, keep, 1) : keep \in SUBSET (1 .. BundleSize)}
    \cup {[full EXCEPT ![i].convertible = FALSE] : i \in 1 .. BundleSize}

\* Client.GetBundleBlocksByBlockNum: a list of blocks, or an error
GetBundleBlocksByBlockNum(blockNum) ==
    {[err |-> TRUE, blocks |-> <<>>]}
    \cup {[err |-> FALSE, blocks |-> l] : l \in BundleLists(blockNum)}

\* Client.GetBlockByHash: the block with that hash, no block (nil), or an error
ClientGetBlockByHash(hash) ==
    {[err |-> TRUE, found |-> FALSE, number |-> 0]}
    \cup (IF \E n \in Numbers : HashOf(n) = hash
          THEN {[err |-> FALSE, found |-> TRUE, number |-> n] :
                   n \in {m \in Numbers : HashOf(m) = hash}}
          ELSE {[err |-> FALSE, found |-> FALSE, number |-> 0]})

(* ------------------------ BlockArchiverService ------------------------ *)

GetBlockRetry == 3

\* a nil *types.Body or *types.Header
Nil == [nil |-> TRUE]

\* block.Body(), block.Header(), block.Hash(), block.NumberU64() of a converted block
BodyOf(b) == [nil |-> FALSE, hash |-> b.hash]

HeaderOf(b) == [nil |-> FALSE, hash |-> b.hash, number |-> b.number]

\* the error values of the service
ErrNil == "nil"

ErrNotFound == "block not found"

ErrRemote == "remote error"

(* --------------------------- the LRU caches --------------------------- *)

\* a capacity no cache can fill: there are no more keys than that
LargeCacheSize == NumBlocks + 2

\* the order of use is kept for the caches that can evict; in a cache that
\* holds every key there is, it never has a say
Tracked(cap) == cap < LargeCacheSize

\* seq without the element k
RECURSIVE Without(_, _)
Without(seq, k) ==
    IF seq = <<>> THEN <<>>
    ELSE IF Head(seq) = k THEN Without(Tail(seq), k)
    ELSE <<Head(seq)>> \o Without(Tail(seq), k)

\* a key moves to the front of the order of use
MoveToFront(order, cap, k) ==
    IF Tracked(cap) THEN <<k>> \o Without(order, k) ELSE order

\* lru.Cache.Get(key): a key that is found becomes the most recently used
LruGet(map, order, cap, k) ==
    IF k \in DOMAIN map THEN MoveToFront(order, cap, k) ELSE order

\* lru.Cache.Add(key, value): a key already cached gets the value and
\* becomes the most recently used; a new key enters at the front, and when
\* the cache is full the least recently used key leaves it first
LruAdd(map, order, cap, k, v) ==
    IF k \in DOMAIN map
    THEN [map |-> MapPut(map, k, v), order |-> MoveToFront(order, cap, k)]
    ELSE IF Cardinality(DOMAIN map) >= cap
    THEN LET victim == order[Len(order)] IN
         [map |-> MapPut(MapDelete(map, victim), k, v),
          order |-> <<k>> \o SubSeq(order, 1, Len(order) - 1)]
    ELSE [map |-> MapPut(map, k, v), order |-> MoveToFront(order, cap, k)]

\* lru.NewCache(capacity): a capacity below one counts as one
NewCacheCap(cacheSize) == IF cacheSize <= 0 THEN 1 ELSE cacheSize

\* a cache of BlockChain as the service is handed it: with the entries of
\* the blocks the chain has put there
ChainCache(map, cap) ==
    [map |-> map, cap |-> cap,
     order |-> IF Tracked(cap) /\ DOMAIN map # {}
               THEN <<CHOOSE k \in DOMAIN map : TRUE>> ELSE <<>>]

\* the bodies and the headers BlockChain may have cached before the service
\* is built: none, or those of the first block of the archive
ChainBodyCaches(cap) ==
    {ChainCache(EmptyMap, cap),
     ChainCache(HashOf(0) :> BodyOf(Block(0, TRUE)), cap)}

ChainHeaderCaches(cap) ==
    {ChainCache(EmptyMap, cap),
     ChainCache(HashOf(0) :> HeaderOf(Block(0, TRUE)), cap)}

\* NewBlockArchiverService(blockHub, bodyCache, headerCache, cacheSize):
\* the two caches of BlockChain as they are, a new hashCache of capacity
\* cacheSize and a new RequestLock
NewBlockArchiverService(body, header, cacheSize) ==
    /\ NewRequestLock
    /\ hashCache = EmptyMap
    /\ bodyCache = body.map
    /\ headerCache = header.map
    /\ capacity = [hash |-> NewCacheCap(cacheSize), body |-> body.cap,
                   header |-> header.cap]
    /\ recency = [hash |-> <<>>, body |-> body.order, header |-> header.order]

Tasks == 1 .. NumTasks

NoCalls == [IsWithinAnyRange |-> 0, AddRange |-> 0, RemoveRange |-> 0, remote |-> 0]

\* found, foundB, foundH before any cache check
NoneFound == [hash |-> FALSE, body |-> FALSE, header |-> FALSE]

\* a task outside any call. pc is the next step of the call; number, hash,
\* retry, start, end, blocks, body, header, err, key (the hash a cache
\* check looks the body and the header up by) and found (found, foundB,
\* foundH of the latest cache check) are the locals of the code; i and
\* exists are the locals of the RequestLock method the task is in, holds
\* tells whether the task has locked rc.mu and not yet unlocked it;
\* served counts the calls of the service the task has started; branch,
\* checks, calls and observed are history of the current call: the
\* branch taken, the cache checks made in the wait loop, the calls made so
\* far, and the results other tasks got from IsWithinAnyRange while this
\* task was inside AddRange.
IdleTask ==
    [pc |-> "idle", op |-> "none", number |-> 0, hash |-> UnknownHash,
     retry |-> 0, start |-> 0, end |-> 0, blocks |-> <<>>,
     body |-> Nil, header |-> Nil, err |-> ErrNil,
     key |-> ZeroHash, found |-> NoneFound, i |-> 0, exists |-> FALSE,
     holds |-> FALSE, served |-> 0, branch |-> "none", checks |-> 0, calls |-> NoCalls, observed |-> <<>>]

(* ------------------- the stand-alone lock client ---------------------- *)

LockArgs == (0 .. MaxArg) \cup {MaxUint}

NoCall == [op |-> "none", from |-> 0, to |-> 0]

Pair(from, to) == SetToBag({<<from, to>>})

\* a client registers [from,to]
AddRangeCall(from, to) ==
    /\ BagCardinality(outstanding) < MaxOutstanding
    /\ AddRange(from, to)
    /\ outstanding' = outstanding (+) Pair(from, to)
    /\ last' = IF mu' = "unlocked"
               THEN [op |-> "AddRange", from |-> from, to |-> to]
               ELSE [op |-> "AddRangeHangs", from |-> from, to |-> to]
    /\ UNCHANGED <<cacheVars, task>>

\* a client releases a range it registered earlier and has not released yet
RemoveRangeCall(from, to) ==
    /\ BagIn(<<from, to>>, outstanding)
    /\ RemoveRange(from, to)
    /\ outstanding' = outstanding (-) Pair(from, to)
    /\ last' = IF mu' = "unlocked"
               THEN [op |-> "RemoveRange", from |-> from, to |-> to]
               ELSE [op |-> "RemoveRangeHangs", from |-> from, to |-> to]
    /\ UNCHANGED <<cacheVars, task>>

InitLock ==
    /\ NewBlockArchiverService(ChainCache(EmptyMap, LargeCacheSize),
                               ChainCache(EmptyMap, LargeCacheSize), LargeCacheSize)
    /\ task = [t \in Tasks |-> IdleTask]
    /\ outstanding = EmptyBag
    /\ last = NoCall

NextLock ==
    \/ \E from \in LockArgs, to \in LockArgs : AddRangeCall(from, to)
    \/ \E from \in LockArgs, to \in LockArgs : RemoveRangeCall(from, to)

SpecLock == InitLock /\ [][NextLock]_vars

(* ----------------------- the service's operations --------------------- *)

Set(t, r) == task' = [task EXCEPT ![t] = r]

Called(calls, what) == [calls EXCEPT ![what] = @ + 1]

\* cache.Get(key): the value, or the zero value when the key is absent
CacheGet(cache, key) == IF key \in DOMAIN cache THEN cache[key] ELSE Nil

\* mutant of BothFound: the block is never taken from the cache
BothFoundNever(foundB, foundH) == FALSE

\* mutant of BothFound: the hash alone decides, body and header are taken
\* as they come
BothFoundIgnored(foundB, foundH) == TRUE

\* if foundB && foundH, the condition of the return from the cache
BothFound(foundB, foundH) == foundB /\ foundH

\* mutant of WaitLoopCond: the loop runs once more
WaitLoopCondOffByOne(retry) == retry <= GetBlockRetry

\* retry < GetBlockRetry, the condition of the wait loop
WaitLoopCond(retry) == retry < GetBlockRetry

\* mutant of IsRequested: the comparison is dropped, each block of the
\* bundle overwrites the result
IsRequestedAlways(b, number) == TRUE

\* if block.NumberU64() == number, in the population loop
IsRequested(b, number) == b.number = number

\* mutant of HashAdded: the parent's hash is stored under the number
HashAddedParent(b) == HashOf(b.number - 1)

\* the hash stored under the number: block.Hash(), the key the body and
\* the header were stored under
HashAdded(b) == b.hash

\* the exits before AddRange: the call returns body, header, err
Exit(r, body, header, err) ==
    [r EXCEPT !.pc = "done", !.body = body, !.header = header, !.err = err]

\* mutant of ExitDeferred: RemoveRange is called at the end of the function
\* instead of deferred, so the error returns skip it
ExitDeferredOnSuccessOnly(r, body, header, err) ==
    IF err = ErrNil
    THEN [r EXCEPT !.pc = "removeRange", !.body = body, !.header = header,
                   !.err = err, !.blocks = <<>>]
    ELSE Exit(r, body, header, err)

\* the exits of getBlockByNumber after AddRange: the deferred RemoveRange
\* runs next, then the call returns body, header, err
ExitDeferred(r, body, header, err) ==
    [r EXCEPT !.pc = "removeRange", !.body = body, !.header = header, !.err = err,
              !.blocks = <<>>]

\* where a call goes on after a cache check that did not return the block:
\* in the wait loop to the sleep, in GetBlockByHash to the remote, in
\* GetBlockByNumber to getBlockByNumber
AfterMiss(r) ==
    LET q == [r EXCEPT !.key = ZeroHash, !.body = Nil, !.header = Nil] IN
    IF q.branch = "wait" THEN [q EXCEPT !.pc = "sleep"]
    ELSE IF q.op = "GetBlockByHash" THEN [q EXCEPT !.pc = "fetchByHash"]
    ELSE [q EXCEPT !.pc = "lockCheck"]

\* hash, found := c.hashCache.Get(number); if found, the body is looked up
\* next
GetHash(t, r) ==
    /\ LET found == r.number \in DOMAIN hashCache
           q == [r EXCEPT !.found = [NoneFound EXCEPT !.hash = found]] IN
       Set(t, IF found
              THEN [q EXCEPT !.pc = "getBody", !.key = hashCache[r.number]]
              ELSE AfterMiss(q))
    /\ recency' = [recency EXCEPT
                     !.hash = LruGet(hashCache, @, capacity.hash, r.number)]
    /\ UNCHANGED <<lockVars, hashCache, bodyCache, headerCache, capacity, clientVars>>

\* body, foundB := c.bodyCache.Get(hash)
GetBodyOf(t, r) ==
    /\ Set(t, [r EXCEPT !.pc = "getHeader",
                        !.body = CacheGet(bodyCache, r.key),
                        !.found.body = r.key \in DOMAIN bodyCache])
    /\ recency' = [recency EXCEPT
                     !.body = LruGet(bodyCache, @, capacity.body, r.key)]
    /\ UNCHANGED <<lockVars, hashCache, bodyCache, headerCache, capacity, clientVars>>

\* GetBlockByNumber(number): the first call of its cache check
GetBlockByNumber(t, number) ==
    /\ task[t].pc = "idle"
    /\ task[t].served < MaxCalls
    /\ GetHash(t, [IdleTask EXCEPT !.op = "GetBlockByNumber", !.number = number,
                                   !.served = task[t].served + 1])

\* GetBlockByHash(hash): the first call of its cache check
GetBlockByHash(t, hash) ==
    /\ task[t].pc = "idle"
    /\ task[t].served < MaxCalls
    /\ GetBodyOf(t, [IdleTask EXCEPT !.op = "GetBlockByHash", !.hash = hash,
                                     !.key = hash,
                                     !.served = task[t].served + 1])

\* the second call of a cache check by number
GetBody(t) ==
    /\ task[t].pc = "getBody"
    /\ GetBodyOf(t, task[t])

\* header, foundH := c.headerCache.Get(hash); if foundB && foundH { return
\* body, header, nil }
GetHeader(t) ==
    /\ task[t].pc = "getHeader"
    /\ LET foundH == task[t].key \in DOMAIN headerCache
           r == [task[t] EXCEPT !.found.header = foundH,
                                !.header = CacheGet(headerCache, task[t].key)] IN
       Set(t, IF BothFound(r.found.body, foundH)
              THEN Exit([r EXCEPT !.key = ZeroHash,
                                  !.branch = IF @ = "none" THEN "cache" ELSE @],
                        r.body, r.header, ErrNil)
              ELSE AfterMiss(r))
    /\ recency' = [recency EXCEPT
                     !.header = LruGet(headerCache, @, capacity.header, task[t].key)]
    /\ UNCHANGED <<lockVars, hashCache, bodyCache, headerCache, capacity, clientVars>>

\* GetBlockByHash: client.GetBlockByHash(hash), then HexToUint64(block.Number),
\* then getBlockByNumber(number)
FetchByHash(t) ==
    /\ task[t].pc = "fetchByHash"
    /\ \E resp \in ClientGetBlockByHash(task[t].hash) :
         LET r == [task[t] EXCEPT !.calls = Called(@, "remote")] IN
         IF resp.err THEN Set(t, Exit(r, Nil, Nil, ErrRemote))
         ELSE IF ~resp.found THEN Set(t, Exit(r, Nil, Nil, ErrNil))
         ELSE Set(t, [r EXCEPT !.pc = "lockCheck", !.number = resp.number])
    /\ UNCHANGED <<lockVars, cacheVars, clientVars>>

\* getBlockByNumber: if c.requestLock.IsWithinAnyRange(number)
LockCheck(t) ==
    /\ task[t].pc = "lockCheck"
    /\ mu = "unlocked"
    /\ LET r == [task[t] EXCEPT !.calls = Called(@, "IsWithinAnyRange")] IN
       IF IsWithinAnyRange(task[t].number)
       THEN LET w == [r EXCEPT !.retry = 0, !.branch = "wait"] IN
            IF WaitLoopCond(0) THEN Set(t, [w EXCEPT !.pc = "waitCheck"])
            ELSE Set(t, Exit(w, Nil, Nil, ErrNotFound))
       ELSE Set(t, [r EXCEPT !.pc = "fetchRange", !.branch = "fetch"])
    /\ UNCHANGED <<lockVars, cacheVars, clientVars>>

\* the wait loop: the first call of its cache check
WaitCheck(t) ==
    /\ task[t].pc = "waitCheck"
    /\ GetHash(t, [task[t] EXCEPT !.checks = @ + 1])

\* time.Sleep(GetBlockRetryInterval); retry++; the loop condition; after the
\* loop, return nil, nil, errors.New("block not found")
Sleep(t) ==
    /\ task[t].pc = "sleep"
    /\ LET r == [task[t] EXCEPT !.retry = @ + 1] IN
       IF WaitLoopCond(r.retry) THEN Set(t, [r EXCEPT !.pc = "waitCheck"])
       ELSE Set(t, Exit(r, Nil, Nil, ErrNotFound))
    /\ UNCHANGED <<lockVars, cacheVars, clientVars>>

\* start, end, err := c.client.GetBundleBlocksRange(number); a panic in it
\* ends the goroutine, the call never returns
FetchRange(t) ==
    /\ task[t].pc = "fetchRange"
    /\ \E resp \in NameResponses(task[t].number) :
         LET r == [task[t] EXCEPT !.calls = Called(@, "remote")]
             range == GetBundleBlocksRange(resp) IN
         IF range.panic THEN Set(t, [r EXCEPT !.pc = "panicked"])
         ELSE IF range.err THEN Set(t, Exit(r, Nil, Nil, ErrRemote))
         ELSE Set(t, [r EXCEPT !.pc = "addRange", !.start = range.start,
                               !.end = range.end])
    /\ UNCHANGED <<lockVars, cacheVars, clientVars>>

\* c.requestLock.AddRange(start, end); defer c.requestLock.RemoveRange(start, end)
DoAddRange(t) ==
    /\ task[t].pc = "addRange"
    /\ AddRange(task[t].start, task[t].end)
    /\ Set(t, [task[t] EXCEPT !.pc = IF mu' = "unlocked" THEN "fetchBlocks" ELSE "hung",
                              !.calls = Called(@, "AddRange")])
    /\ UNCHANGED <<cacheVars, clientVars>>

\* blocks, err := c.client.GetBundleBlocksByBlockNum(number); an empty list
\* ends the population loop at once
FetchBlocks(t) ==
    /\ task[t].pc = "fetchBlocks"
    /\ \E resp \in GetBundleBlocksByBlockNum(task[t].number) :
         LET r == [task[t] EXCEPT !.calls = Called(@, "remote")] IN
         IF resp.err THEN Set(t, ExitDeferred(r, Nil, Nil, ErrRemote))
         ELSE IF resp.blocks = <<>> THEN Set(t, ExitDeferred(r, Nil, Nil, ErrNil))
         ELSE Set(t, [r EXCEPT !.pc = "addBody", !.blocks = resp.blocks])
    /\ UNCHANGED <<lockVars, cacheVars, clientVars>>

\* block, err := convertBlock(b); c.bodyCache.Add(block.Hash(), block.Body())
AddBody(t) ==
    /\ task[t].pc = "addBody"
    /\ LET b == Head(task[t].blocks) IN
       IF ~b.convertible
       THEN /\ Set(t, ExitDeferred(task[t], Nil, Nil, ErrRemote))
            /\ UNCHANGED bodyCache
            /\ UNCHANGED recency
       ELSE LET added == LruAdd(bodyCache, recency.body, capacity.body,
                                b.hash, BodyOf(b)) IN
            /\ bodyCache' = added.map
            /\ recency' = [recency EXCEPT !.body = added.order]
            /\ Set(t, [task[t] EXCEPT !.pc = "addHeader"])
    /\ UNCHANGED <<lockVars, hashCache, headerCache, capacity, clientVars>>

\* c.headerCache.Add(block.Hash(), block.Header())
AddHeader(t) ==
    /\ task[t].pc = "addHeader"
    /\ LET b == Head(task[t].blocks)
           added == LruAdd(headerCache, recency.header, capacity.header,
                           b.hash, HeaderOf(b)) IN
       /\ headerCache' = added.map
       /\ recency' = [recency EXCEPT !.header = added.order]
    /\ Set(t, [task[t] EXCEPT !.pc = "addHash"])
    /\ UNCHANGED <<lockVars, hashCache, bodyCache, capacity, clientVars>>

\* c.hashCache.Add(block.NumberU64(), block.Hash()); if block.NumberU64() ==
\* number { body = block.Body(); header = block.Header() }; then the next
\* block, or return body, header, nil after the last one
AddHash(t) ==
    /\ task[t].pc = "addHash"
    /\ LET b == Head(task[t].blocks)
           rest == Tail(task[t].blocks)
           body == IF IsRequested(b, task[t].number) THEN BodyOf(b) ELSE task[t].body
           header == IF IsRequested(b, task[t].number) THEN HeaderOf(b)
                     ELSE task[t].header
           added == LruAdd(hashCache, recency.hash, capacity.hash,
                           b.number, HashAdded(b)) IN
       /\ hashCache' = added.map
       /\ recency' = [recency EXCEPT !.hash = added.order]
       /\ IF rest = <<>>
          THEN Set(t, ExitDeferred(task[t], body, header, ErrNil))
          ELSE Set(t, [task[t] EXCEPT !.pc = "addBody", !.blocks = rest,
                                      !.body = body, !.header = header])
    /\ UNCHANGED <<lockVars, bodyCache, headerCache, capacity, clientVars>>

\* the deferred c.requestLock.RemoveRange(start, end), then the return
DoRemoveRange(t) ==
    /\ task[t].pc = "removeRange"
    /\ RemoveRange(task[t].start, task[t].end)
    /\ Set(t, [task[t] EXCEPT !.pc = IF mu' = "unlocked" THEN "done" ELSE "hung",
                              !.calls = Called(@, "RemoveRange")])
    /\ UNCHANGED <<cacheVars, clientVars>>

\* the caller takes the result; the task is free for its next call
Return(t) ==
    /\ task[t].pc = "done"
    /\ Set(t, [IdleTask EXCEPT !.served = task[t].served])
    /\ UNCHANGED <<lockVars, cacheVars, clientVars>>

\* cache.Len(): the number of entries
CacheLen(cache) == Cardinality(DOMAIN cache)

\* go b.cacheStats(): at each tick the three lengths are read and logged;
\* Len moves no entry and removes none
CacheStats ==
    /\ CacheLen(bodyCache) <= capacity.body
    /\ CacheLen(headerCache) <= capacity.header
    /\ CacheLen(hashCache) <= capacity.hash
    /\ UNCHANGED vars

\* the hashes looked up: that of the block BlockChain may have cached, that
\* of a block of another bundle, and one no archived block has
LookupHashes == {HashOf(0), HashOf(NumBlocks - 1), UnknownHash}

\* the service built over caches that never fill
Init ==
    /\ \E body \in ChainBodyCaches(LargeCacheSize),
          header \in ChainHeaderCaches(LargeCacheSize) :
         NewBlockArchiverService(body, header, LargeCacheSize)
    /\ task = [t \in Tasks |-> IdleTask]
    /\ outstanding = EmptyBag
    /\ last = NoCall

Next ==
    \/ \E t \in Tasks, number \in Numbers : GetBlockByNumber(t, number)
    \/ \E t \in Tasks, hash \in LookupHashes : GetBlockByHash(t, hash)
    \/ \E t \in Tasks : GetBody(t)
    \/ \E t \in Tasks : GetHeader(t)
    \/ \E t \in Tasks : FetchByHash(t)
    \/ \E t \in Tasks : LockCheck(t)
    \/ \E t \in Tasks : WaitCheck(t)
    \/ \E t \in Tasks : Sleep(t)
    \/ \E t \in Tasks : FetchRange(t)
    \/ \E t \in Tasks : DoAddRange(t)
    \/ \E t \in Tasks : FetchBlocks(t)
    \/ \E t \in Tasks : AddBody(t)
    \/ \E t \in Tasks : AddHeader(t)
    \/ \E t \in Tasks : AddHash(t)
    \/ \E t \in Tasks : DoRemoveRange(t)
    \/ \E t \in Tasks : Return(t)
    \/ CacheStats

Spec == Init /\ [][Next]_vars

(* ------------------ the service with evicting caches ------------------ *)

\* the blocks BlockChain writes to the caches it shares with the service
ChainBlocks == {Block(0, TRUE)}

\* BlockChain: bodyCache.Add(block.Hash(), block.Body())
ChainAddBody(b) ==
    /\ LET added == LruAdd(bodyCache, recency.body, capacity.body,
                           b.hash, BodyOf(b)) IN
       /\ bodyCache' = added.map
       /\ recency' = [recency EXCEPT !.body = added.order]
    /\ UNCHANGED <<lockVars, hashCache, headerCache, capacity, task, clientVars>>

\* BlockChain: headerCache.Add(block.Hash(), block.Header())
ChainAddHeader(b) ==
    /\ LET added == LruAdd(headerCache, recency.header, capacity.header,
                           b.hash, HeaderOf(b)) IN
       /\ headerCache' = added.map
       /\ recency' = [recency EXCEPT !.header = added.order]
    /\ UNCHANGED <<lockVars, hashCache, bodyCache, capacity, task, clientVars>>

\* the service built over caches of capacity SmallCacheSize
InitEvict ==
    /\ \E body \in ChainBodyCaches(SmallCacheSize),
          header \in ChainHeaderCaches(SmallCacheSize) :
         NewBlockArchiverService(body, header, SmallCacheSize)
    /\ task = [t \in Tasks |-> IdleTask]
    /\ outstanding = EmptyBag
    /\ last = NoCall

\* the lookups by number of the first bundle, over evicting caches that
\* BlockChain writes to as well
NextEvict ==
    \/ \E t \in Tasks, number \in BundleStart(0) .. BundleEnd(0) :
         GetBlockByNumber(t, number)
    \/ \E t \in Tasks : GetBody(t)
    \/ \E t \in Tasks : GetHeader(t)
    \/ \E t \in Tasks : LockCheck(t)
    \/ \E t \in Tasks : WaitCheck(t)
    \/ \E t \in Tasks : Sleep(t)
    \/ \E t \in Tasks : FetchRange(t)
    \/ \E t \in Tasks : DoAddRange(t)
    \/ \E t \in Tasks : FetchBlocks(t)
    \/ \E t \in Tasks : AddBody(t)
    \/ \E t \in Tasks : AddHeader(t)
    \/ \E t \in Tasks : AddHash(t)
    \/ \E t \in Tasks : DoRemoveRange(t)
    \/ \E t \in Tasks : Return(t)
    \/ \E b \in ChainBlocks : ChainAddBody(b)
    \/ \E b \in ChainBlocks : ChainAddHeader(b)
    \/ CacheStats

SpecEvict == InitEvict /\ [][NextEvict]_vars

(* ------------ the lock's methods, statement by statement -------------- *)

\* mutant of MuFree: Lock never waits, as if there were no mutex
MuFreeAlways == TRUE

\* rc.mu.Lock() goes through when the mutex is unlocked
MuFree == mu = "unlocked"

\* mutant of Unlock: the method returns without unlocking
UnlockForgotten(m) == m

\* defer rc.mu.Unlock()
Unlock(m) == "unlocked"

\* where a task is once its Lock went through: in IsWithinAnyRange, in
\* AddRange or in RemoveRange
Inside(pc) ==
    CASE pc = "lockCheck" -> "lookup"
      [] pc = "addRange" -> "addRangeMap"
      [] pc = "removeRange" -> "removeRangeMap"

\* task u holds the mutex inside AddRange
InsideAddRange(u) == task[u].pc \in {"addRangeMap", "addLoop"}

\* rc.mu.Lock(), the first statement of the three methods
Lock(t) ==
    /\ task[t].pc \in {"lockCheck", "addRange", "removeRange"}
    /\ MuFree
    /\ mu' = "locked"
    /\ Set(t, [task[t] EXCEPT !.pc = Inside(@), !.holds = TRUE])
    /\ UNCHANGED <<rangeMap, lookupMap, cacheVars, clientVars>>

\* what follows the return of IsWithinAnyRange: the caller of the lock has
\* its result; getBlockByNumber enters the wait loop or goes on to fetch
AfterLookup(r) ==
    IF r.op = "IsWithinAnyRange" THEN [r EXCEPT !.pc = "done"]
    ELSE IF r.exists
    THEN LET w == [r EXCEPT !.retry = 0, !.branch = "wait"] IN
         IF WaitLoopCond(0) THEN [w EXCEPT !.pc = "waitCheck"]
         ELSE Exit(w, Nil, Nil, ErrNotFound)
    ELSE [r EXCEPT !.pc = "fetchRange", !.branch = "fetch"]

\* IsWithinAnyRange: _, exists := rc.lookupMap[num]; return exists, with the
\* deferred Unlock. Each task inside AddRange notes the result in observed.
Lookup(t) ==
    /\ task[t].pc = "lookup"
    /\ mu' = Unlock(mu)
    /\ LET exists == IsWithinAnyRange(task[t].number)
           r == [task[t] EXCEPT !.exists = exists, !.holds = (mu' = "locked"),
                                !.calls = Called(@, "IsWithinAnyRange")] IN
       task' = [u \in Tasks |->
                  IF u = t THEN AfterLookup(r)
                  ELSE IF InsideAddRange(u)
                  THEN [task[u] EXCEPT
                          !.observed = Append(@, <<task[t].number, exists>>)]
                  ELSE task[u]]
    /\ UNCHANGED <<rangeMap, lookupMap, cacheVars, clientVars>>

\* AddRange: rc.rangeMap[from] = Range{from, to}; i := from
AddRangeMap(t) ==
    /\ task[t].pc = "addRangeMap"
    /\ rangeMap' = MapPut(rangeMap, task[t].start, Range(task[t].start, task[t].end))
    /\ Set(t, [task[t] EXCEPT !.pc = "addLoop", !.i = task[t].start])
    /\ UNCHANGED <<lookupMap, mu, cacheVars, clientVars>>

\* AddRange: one turn of the loop, rc.lookupMap[i] = true; i++
AddLoopStep(t) ==
    /\ task[t].pc = "addLoop"
    /\ AddLoopCond(task[t].i, task[t].end)
    /\ lookupMap' = MapPut(lookupMap, task[t].i, TRUE)
    /\ Set(t, [task[t] EXCEPT !.i = Inc(@)])
    /\ UNCHANGED <<rangeMap, mu, cacheVars, clientVars>>

\* AddRange: the loop condition fails, the deferred Unlock runs and the
\* method returns; getBlockByNumber goes on to fetch the blocks
AddRangeReturn(t) ==
    /\ task[t].pc = "addLoop"
    /\ ~AddLoopCond(task[t].i, task[t].end)
    /\ mu' = Unlock(mu)
    /\ Set(t, [task[t] EXCEPT
                 !.pc = IF task[t].op = "AddRange" THEN "done" ELSE "fetchBlocks",
                 !.i = 0, !.holds = (mu' = "locked"),
                 !.calls = Called(@, "AddRange")])
    /\ UNCHANGED <<rangeMap, lookupMap, cacheVars, clientVars>>

\* RemoveRange: delete(rc.rangeMap, from); i := from
RemoveRangeMap(t) ==
    /\ task[t].pc = "removeRangeMap"
    /\ rangeMap' = MapDelete(rangeMap, task[t].start)
    /\ Set(t, [task[t] EXCEPT !.pc = "removeLoop", !.i = task[t].start])
    /\ UNCHANGED <<lookupMap, mu, cacheVars, clientVars>>

\* RemoveRange: one turn of the loop, delete(rc.lookupMap, i); i++
RemoveLoopStep(t) ==
    /\ task[t].pc = "removeLoop"
    /\ RemoveLoopCond(task[t].i, task[t].end)
    /\ lookupMap' = MapDelete(lookupMap, task[t].i)
    /\ Set(t, [task[t] EXCEPT !.i = Inc(@)])
    /\ UNCHANGED <<rangeMap, mu, cacheVars, clientVars>>

\* RemoveRange: the loop condition fails, the deferred Unlock runs and the
\* method returns; in getBlockByNumber the call returns after it
RemoveRangeReturn(t) ==
    /\ task[t].pc = "removeLoop"
    /\ ~RemoveLoopCond(task[t].i, task[t].end)
    /\ mu' = Unlock(mu)
    /\ Set(t, [task[t] EXCEPT !.pc = "done", !.i = 0, !.holds = (mu' = "locked"),
                              !.calls = Called(@, "RemoveRange")])
    /\ UNCHANGED <<rangeMap, lookupMap, cacheVars, clientVars>>

\* the steps of task t inside the lock's methods, its Lock aside
LockSteps(t) ==
    \/ Lookup(t)
    \/ AddRangeMap(t)
    \/ AddLoopStep(t)
    \/ AddRangeReturn(t)
    \/ RemoveRangeMap(t)
    \/ RemoveLoopStep(t)
    \/ RemoveRangeReturn(t)

(* ------- tasks calling the lock's methods, statement by statement ----- *)

\* a task calls rc.IsWithinAnyRange(num)
CallIsWithinAnyRange(t, num) ==
    /\ task[t].pc = "idle"
    /\ Set(t, [IdleTask EXCEPT !.pc = "lockCheck", !.op = "IsWithinAnyRange",
                               !.number = num])
    /\ UNCHANGED <<lockVars, cacheVars, clientVars>>

\* a task calls rc.AddRange(from, to)
CallAddRange(t, from, to) ==
    /\ task[t].pc = "idle"
    /\ Set(t, [IdleTask EXCEPT !.pc = "addRange", !.op = "AddRange",
                               !.start = from, !.end = to])
    /\ UNCHANGED <<lockVars, cacheVars, clientVars>>

\* a task calls rc.RemoveRange(from, to)
CallRemoveRange(t, from, to) ==
    /\ task[t].pc = "idle"
    /\ Set(t, [IdleTask EXCEPT !.pc = "removeRange", !.op = "RemoveRange",
                               !.start = from, !.end = to])
    /\ UNCHANGED <<lockVars, cacheVars, clientVars>>

NextLockSteps ==
    \/ \E t \in Tasks, num \in 0 .. MaxArg : CallIsWithinAnyRange(t, num)
    \/ \E t \in Tasks, from \in 0 .. MaxArg, to \in 0 .. MaxArg :
         CallAddRange(t, from, to)
    \/ \E t \in Tasks, from \in 0 .. MaxArg, to \in 0 .. MaxArg :
         CallRemoveRange(t, from, to)
    \/ \E t \in Tasks : Lock(t)
    \/ \E t \in Tasks : Lookup(t)
    \/ \E t \in Tasks : AddRangeMap(t)
    \/ \E t \in Tasks : AddLoopStep(t)
    \/ \E t \in Tasks : AddRangeReturn(t)
    \/ \E t \in Tasks : RemoveRangeMap(t)
    \/ \E t \in Tasks : RemoveLoopStep(t)
    \/ \E t \in Tasks : RemoveRangeReturn(t)
    \/ \E t \in Tasks : Return(t)

SpecLockSteps == InitLock /\ [][NextLockSteps]_vars

(* ---- the service over the lock's methods, statement by statement ----- *)

\* the steps of task t in a call of the service, the Lock of the mutex
\* aside
ServiceSteps(t) ==
    \/ GetBody(t)
    \/ GetHeader(t)
    \/ FetchByHash(t)
    \/ WaitCheck(t)
    \/ Sleep(t)
    \/ FetchRange(t)
    \/ FetchBlocks(t)
    \/ AddBody(t)
    \/ AddHeader(t)
    \/ AddHash(t)
    \/ LockSteps(t)

\* the lookups of the blocks of the first bundle, by number and by hash
NextSteps ==
    \/ \E t \in Tasks, number \in BundleStart(0) .. BundleEnd(0) :
         GetBlockByNumber(t, number)
    \/ \E t \in Tasks, number \in BundleStart(0) .. BundleEnd(0) :
         GetBlockByHash(t, HashOf(number))
    \/ \E t \in Tasks : Lock(t)
    \/ \E t \in Tasks : ServiceSteps(t)
    \/ \E t \in Tasks : Return(t)
    \/ CacheStats

SpecSteps == Init /\ [][NextSteps]_vars

(* ------------------------ properties of the lock ---------------------- *)

\* the identifiers of the closed interval [from, to]
Interval(from, to) == from .. to

\* C1: for from <= to, a call AddRange(from,to) that returns leaves
\* IsWithinAnyRange true on every identifier of [from,to] and, on every
\* identifier outside it, equal to what it was before the call.
C1_AddRangeMarksItsRangeOnly ==
    [][\A from \in LockArgs, to \in LockArgs :
         (/\ from <= to
          /\ last' = [op |-> "AddRange", from |-> from, to |-> to]
          /\ AddRangeCall(from, to)
          /\ mu' = "unlocked")
         => \A x \in Uint :
              IsWithinAnyRange(x)' =
                 IF x \in Interval(from, to) THEN TRUE ELSE IsWithinAnyRange(x)
      ]_vars

\* C1 witness: a single-element AddRange(n,n) has returned on a lock that
\* already held another identifier; n is marked and its neighbours are not.
C1_Witness ==
    /\ last.op = "AddRange"
    /\ last.from = last.to
    /\ last.from > 0
    /\ IsWithinAnyRange(last.from)
    /\ ~IsWithinAnyRange(last.from - 1)
    /\ ~IsWithinAnyRange(last.from + 1)
    /\ \E y \in Uint : y # last.from /\ IsWithinAnyRange(y)

\* the ranges still registered by the client, [from,to] apart, do not meet [from,to]
NoOtherOverlaps(registered, from, to) ==
    \A p \in BagToSet(registered) :
        Interval(p[1], p[2]) \cap Interval(from, to) = {}

\* C2: a call RemoveRange(from,to) that matches an earlier AddRange(from,to),
\* with no other registered range overlapping [from,to], leaves
\* IsWithinAnyRange false on [from,to], no rangeMap entry keyed by from, and
\* the marks of every identifier outside [from,to] as they were.
C2_RemoveRangeClearsItsRangeOnly ==
    [][\A from \in LockArgs, to \in LockArgs :
         (/\ from <= to
          /\ last' = [op |-> "RemoveRange", from |-> from, to |-> to]
          /\ RemoveRangeCall(from, to)
          /\ mu' = "unlocked"
          /\ NoOtherOverlaps(outstanding', from, to))
         => /\ \A x \in Interval(from, to) : ~IsWithinAnyRange(x)'
            /\ from \notin DOMAIN rangeMap'
            /\ \A x \in Uint \ Interval(from, to) :
                   IsWithinAnyRange(x)' = IsWithinAnyRange(x)
      ]_vars

\* C2 witness: RemoveRange(from,to) has returned, another registered range
\* disjoint from it is still fully marked, and [from,to] is clear.
C2_Witness ==
    /\ last.op = "RemoveRange"
    /\ last.from < last.to
    /\ NoOtherOverlaps(outstanding, last.from, last.to)
    /\ \A x \in Interval(last.from, last.to) : ~IsWithinAnyRange(x)
    /\ last.from \notin DOMAIN rangeMap
    /\ \E p \in BagToSet(outstanding) :
          /\ p[1] <= p[2]
          /\ \A x \in Interval(p[1], p[2]) : IsWithinAnyRange(x)

\* the identifiers covered by the union of the intervals stored in rangeMap
CoveredByRangeMap ==
    UNION {Interval(rangeMap[f].from, rangeMap[f].to) : f \in DOMAIN rangeMap}

\* C3: whenever no call is inside the lock, the keys of lookupMap are exactly
\* the identifiers covered by the union of the intervals of rangeMap.
C3_LookupMapIsUnionOfRanges ==
    mu = "unlocked" => DOMAIN lookupMap = CoveredByRangeMap

(* ---------------------- properties of the service --------------------- *)

\* the task is between its AddRange and its RemoveRange
InFlight(t) == task[t].calls.AddRange > task[t].calls.RemoveRange

\* hash, body and header of block n are all cached
TripletPresent(n) ==
    /\ n \in DOMAIN hashCache
    /\ hashCache[n] \in DOMAIN bodyCache
    /\ hashCache[n] \in DOMAIN headerCache

\* C4: at most one fetch of a given bundle is in flight at any time: no two
\* tasks are both between AddRange and RemoveRange of the same range.
C4_OneFetcherPerBundle ==
    \A t \in Tasks, u \in Tasks :
        (t # u /\ InFlight(t) /\ InFlight(u))
        => Range(task[t].start, task[t].end) # Range(task[u].start, task[u].end)

\* C5: a caller leaves the wait loop with "block not found" only if the
\* triplet of its number is still not populated when the loop returns (the
\* caches only grow, so: was never populated during the wait).
C5_NotFoundOnlyIfNeverPopulated ==
    [][\A t \in Tasks :
         (task[t].pc = "sleep" /\ task'[t].pc = "done" /\ task'[t].err = ErrNotFound)
         => ~TripletPresent(task[t].number)
      ]_vars

\* C6: a caller that took the wait branch makes at most GetBlockRetry cache
\* checks and ends in success (body and header present) or, after exactly
\* GetBlockRetry missed checks, in "block not found"; never in a remote error.
C6_WaitBranchOutcome ==
    \A t \in Tasks :
        task[t].branch = "wait"
        => /\ task[t].checks <= GetBlockRetry
           /\ task[t].pc = "done"
              => /\ task[t].err \in {ErrNil, ErrNotFound}
                 /\ task[t].err = ErrNil
                    => task[t].body # Nil /\ task[t].header # Nil
                 /\ task[t].err = ErrNotFound
                    => /\ task[t].checks = GetBlockRetry
                       /\ task[t].body = Nil /\ task[t].header = Nil

\* C6 witness: a waiter has failed with "block not found" after GetBlockRetry
\* checks while the fetcher of its bundle is still between AddRange and
\* RemoveRange.
C6_Witness ==
    \E t \in Tasks, u \in Tasks :
        /\ t # u
        /\ task[t].pc = "done" /\ task[t].branch = "wait"
        /\ task[t].err = ErrNotFound /\ task[t].checks = GetBlockRetry
        /\ InFlight(u)
        /\ task[t].number \in Interval(task[u].start, task[u].end)

\* C7: the lock never leaks. A call makes at most one AddRange; a call that
\* has returned made exactly as many RemoveRange as AddRange; and when no task
\* is between its AddRange and its RemoveRange, rangeMap and lookupMap are
\* empty, so that IsWithinAnyRange is false everywhere and the next lookup
\* becomes a fetcher.
C7_LockNeverLeaks ==
    /\ \A t \in Tasks :
          /\ task[t].calls.AddRange \in {0, 1}
          /\ task[t].calls.RemoveRange <= task[t].calls.AddRange
          /\ task[t].pc \in {"idle", "done"} => ~InFlight(t)
    /\ (\A t \in Tasks : ~InFlight(t))
       => /\ rangeMap = EmptyMap
          /\ lookupMap = EmptyMap
          /\ \A n \in Numbers : ~IsWithinAnyRange(n)

\* C7 witness: a fetcher has returned an error after its AddRange (the remote
\* failed or a block did not convert), its RemoveRange has run, nobody else is
\* fetching and the lock is empty.
C7_Witness ==
    /\ \E t \in Tasks :
          /\ task[t].pc = "done" /\ task[t].err = ErrRemote
          /\ task[t].calls.AddRange = 1 /\ task[t].calls.RemoveRange = 1
    /\ \A t \in Tasks : ~InFlight(t)
    /\ lookupMap = EmptyMap /\ rangeMap = EmptyMap

\* C8: a GetBlockByNumber(n) that returns without error returns a body and a
\* header, and they are those of block n.
C8_ByNumberReturnsBlockN ==
    \A t \in Tasks :
        (task[t].pc = "done" /\ task[t].op = "GetBlockByNumber" /\ task[t].err = ErrNil)
        => /\ task[t].body # Nil
           /\ task[t].header # Nil
           /\ task[t].header.number = task[t].number
           /\ task[t].body.hash = task[t].header.hash

\* C9: a GetBlockByHash(h) that returns without error returns a body and a
\* header.
C9_ByHashReturnsBlockOrError ==
    \A t \in Tasks :
        (task[t].pc = "done" /\ task[t].op = "GetBlockByHash" /\ task[t].err = ErrNil)
        => /\ task[t].body # Nil
           /\ task[t].header # Nil

\* C10: the first cache check of GetBlockByNumber(n), lookup by lookup. When
\* the hash of n is cached the body is looked up by it, then the header; when
\* the three lookups all find their entry the call returns the body and the
\* header it read, without an error. None of the three steps calls the lock
\* or the remote, or changes the lock or the contents of a cache.
C10_CacheHitReturnsAtOnce ==
    [][\A t \in Tasks :
         (/\ task'[t] # task[t]
          /\ task'[t].op = "GetBlockByNumber"
          /\ task[t].pc \in {"idle", "getBody", "getHeader"}
          /\ task[t].branch = "none")
         => /\ task'[t].calls = NoCalls
            /\ UNCHANGED <<rangeMap, lookupMap, mu>>
            /\ UNCHANGED <<hashCache, bodyCache, headerCache>>
            /\ (task[t].pc = "idle" /\ task'[t].number \in DOMAIN hashCache)
               => /\ task'[t].pc = "getBody"
                  /\ task'[t].key = hashCache[task'[t].number]
            /\ (task[t].pc = "getBody" /\ task[t].key \in DOMAIN bodyCache)
               => /\ task'[t].pc = "getHeader"
                  /\ task'[t].body = bodyCache[task[t].key]
            /\ (/\ task[t].pc = "getHeader"
                /\ task[t].found.body
                /\ task[t].key \in DOMAIN headerCache)
               => /\ task'[t].pc = "done"
                  /\ task'[t].err = ErrNil
                  /\ task'[t].body = task[t].body
                  /\ task'[t].header = headerCache[task[t].key]
      ]_vars

\* C10 witness: a GetBlockByNumber has returned from the cache check with the
\* cached body and header of its number.
C10_Witness ==
    \E t \in Tasks :
        /\ task[t].pc = "done" /\ task[t].op = "GetBlockByNumber"
        /\ task[t].branch = "cache"
        /\ task[t].calls = NoCalls
        /\ TripletPresent(task[t].number)
        /\ task[t].body = bodyCache[hashCache[task[t].number]]
        /\ task[t].header = headerCache[hashCache[task[t].number]]

\* where a cache check of task t goes when it does not return the block
MissGoesTo(t) == IF task[t].branch = "wait" THEN "sleep" ELSE "lockCheck"

\* C11: partial presence is a miss, lookup by lookup. A cache check of
\* GetBlockByNumber(n) whose lookup of the hash of n finds nothing, or whose
\* lookup of the body or of the header by that hash finds nothing, does not
\* return from the cache: the first check goes on to the lock check, a check
\* inside the wait loop goes on to the sleep.
C11_PartialPresenceIsMiss ==
    [][\A t \in Tasks :
         (task'[t] # task[t] /\ task'[t].op = "GetBlockByNumber")
         => /\ (/\ task[t].pc \in {"idle", "waitCheck"}
                /\ task'[t].number \notin DOMAIN hashCache)
               => /\ task'[t].pc = MissGoesTo(t)
                  /\ task'[t].body = Nil /\ task'[t].header = Nil
            /\ (/\ task[t].pc = "getHeader"
                /\ \/ ~task[t].found.body
                   \/ task[t].key \notin DOMAIN headerCache)
               => /\ task'[t].pc = MissGoesTo(t)
                  /\ task'[t].body = Nil /\ task'[t].header = Nil
      ]_vars

\* C11 witness: a call became a Fetcher after a first cache check that found
\* the hash and the header of its block but not the body, which an Add to the
\* full body cache had evicted
C11_Witness ==
    \E t \in Tasks :
      /\ task[t].op = "GetBlockByNumber"
      /\ task[t].branch = "fetch"
      /\ task[t].found = [hash |-> TRUE, body |-> FALSE, header |-> TRUE]

\* the block a call asks for, named by its hash
Target(t) ==
    IF task[t].op = "GetBlockByNumber" THEN HashOf(task[t].number) ELSE task[t].hash

\* the call of task t has returned a block without an error
Returned(t) ==
    /\ task[t].pc = "done"
    /\ task[t].err = ErrNil
    /\ task[t].body # Nil
    /\ task[t].header # Nil

\* C12: without eviction, a lookup made once the caches hold block n returns
\* a block, by number n and by hash h alike, and any two lookups of the same
\* block that return a block, by number or by hash, from the cache, after a
\* wait or after a fetch, return the same body and the same header.
C12_SameBlockSamePair ==
    \A t \in Tasks, u \in Tasks :
      /\ (task[t].pc = "done" /\ task[t].branch = "cache") => Returned(t)
      /\ (Returned(t) /\ Returned(u) /\ Target(t) = Target(u))
         => /\ task[t].body = task[u].body
            /\ task[t].header = task[u].header

\* one task has fetched the bundle of block n and has the block by its
\* number, another has it from the cache by its hash
C12_Witness ==
    \E t \in Tasks, u \in Tasks, n \in Numbers :
      /\ task[t].op = "GetBlockByNumber" /\ task[t].number = n
      /\ task[u].op = "GetBlockByHash" /\ task[u].hash = HashOf(n)
      /\ task[t].branch = "fetch" /\ task[u].branch = "cache"
      /\ n \in DOMAIN hashCache /\ n # 0
      /\ Returned(t) /\ Returned(u)
      /\ task[t].body = task[u].body /\ task[t].header = task[u].header

(* -------------------- properties of the mutex ------------------------- *)

\* the steps of a call at which the task is inside a method of the lock
LockMethodSteps == {"lookup", "addRangeMap", "addLoop", "removeRangeMap", "removeLoop"}

\* the steps of a call at which the task is in a remote call or asleep
RemoteOrSleepSteps == {"fetchByHash", "fetchRange", "fetchBlocks", "sleep"}

\* C13: a task that is in a remote call or asleep in the wait loop does not
\* hold the mutex of the lock; a task holds it only inside IsWithinAnyRange,
\* AddRange and RemoveRange, and the mutex is locked only while some task
\* holds it.
C13_MutexHeldOnlyInsideLock ==
    /\ \A t \in Tasks :
         /\ task[t].pc \in RemoteOrSleepSteps => ~task[t].holds
         /\ task[t].holds => task[t].pc \in LockMethodSteps
    /\ mu = "locked" <=> \E t \in Tasks : task[t].holds

\* a Waiter asleep in the wait loop, its IsWithinAnyRange behind it, while
\* the Fetcher holds the mutex inside RemoveRange
C13_Witness ==
    \E t \in Tasks, u \in Tasks :
      /\ task[t].pc = "sleep"
      /\ task[t].calls.IsWithinAnyRange = 1
      /\ ~task[t].holds
      /\ task[u].pc = "removeLoop"
      /\ task[u].holds

\* C14: a reader never sees a range half added. Among the results other
\* tasks got from IsWithinAnyRange while a task was inside AddRange(from,to),
\* none is true for an identifier of [from,to] and followed by false for
\* another identifier of [from,to].
C14_NoHalfAddedRangeSeen ==
    \A u \in Tasks :
      LET seen == task[u].observed
          range == Interval(task[u].start, task[u].end) IN
      ~ \E j \in 1 .. Len(seen), k \in 1 .. Len(seen) :
          /\ j < k
          /\ seen[j][1] \in range /\ seen[j][2]
          /\ seen[k][1] \in range /\ ~seen[k][2]
          /\ seen[j][1] # seen[k][1]

\* an AddRange(from,to) that has marked some identifiers of its range and
\* not yet all, and a reader that has called IsWithinAnyRange for an
\* identifier still unmarked and waits for the mutex
C14_Witness ==
    \E u \in Tasks, t \in Tasks :
      /\ task[u].pc = "addLoop" /\ task[u].holds
      /\ task[u].start < task[u].i /\ task[u].i <= task[u].end
      /\ task[u].start \in DOMAIN lookupMap
      /\ task[t].op = "IsWithinAnyRange" /\ task[t].pc = "lockCheck"
      /\ task[t].number \in Interval(task[u].start, task[u].end)
      /\ task[t].number \notin DOMAIN lookupMap

\* C15: fetches of unrelated bundles are not serialized. A lookup takes the
\* wait branch only if a fetch in flight covers its own identifier, so a
\* fetch of one range never makes the lookup of an identifier outside it
\* wait; and while no task is caught in a loop of the lock that never ends
\* the mutex is free between the steps of the calls, so a fetch in flight
\* keeps no other task from its next step.
C15_UnrelatedFetchesNotSerialized ==
    [][\A t \in Tasks :
         /\ (task[t].pc = "lockCheck" /\ task'[t].branch = "wait")
            => \E u \in Tasks :
                 /\ u # t
                 /\ InFlight(u)
                 /\ task[t].number \in Interval(task[u].start, task[u].end)
         /\ (InFlight(t) /\ \A u \in Tasks : task[u].pc # "hung")
            => mu = "unlocked"
      ]_vars

\* two Fetchers of two disjoint bundles, both between AddRange and
\* RemoveRange, both with the remote call for the blocks ahead
C15_Witness ==
    \E t \in Tasks, u \in Tasks :
      /\ InFlight(t) /\ InFlight(u)
      /\ task[t].pc = "fetchBlocks" /\ task[u].pc = "fetchBlocks"
      /\ Interval(task[t].start, task[t].end)
           \cap Interval(task[u].start, task[u].end) = {}
      /\ task[t].number \in Interval(task[t].start, task[t].end)
      /\ task[u].number \in Interval(task[u].start, task[u].end)
      /\ Interval(task[t].start, task[t].end) \cup
           Interval(task[u].start, task[u].end) \subseteq DOMAIN lookupMap
      /\ mu = "unlocked"

\* C16 (fails): every call of GetBlockByNumber or GetBlockByHash goes on to
\* its return; none ends in a panic on the way.
C16_NoCallPanics ==
    \A t \in Tasks : task[t].pc # "panicked"

\* C17 (fails): while a Fetcher is between its AddRange(start,end) and its
\* RemoveRange(start,end), IsWithinAnyRange is true on every identifier of
\* [start,end].
C17_InFlightRangeStaysMarked ==
    \A t \in Tasks :
      (InFlight(t) /\ task[t].pc # "hung")
      => \A x \in Interval(task[t].start, task[t].end) : IsWithinAnyRange(x)

\* C18: without eviction, whenever hashCache maps a number to a hash, the
\* body and the header of that hash are cached too, in the middle of a
\* population loop as well.
C18_HashImpliesBodyAndHeader ==
    \A n \in DOMAIN hashCache :
      /\ hashCache[n] \in DOMAIN bodyCache
      /\ hashCache[n] \in DOMAIN headerCache

\* a Fetcher in the middle of its population loop: an earlier block of its
\* bundle has its hash cached, the current block has its body cached but
\* neither header nor hash, while another task is about to check the cache
C18_Witness ==
    \E t \in Tasks, u \in Tasks :
      /\ task[t].pc = "addHeader"
      /\ Head(task[t].blocks).number # task[t].start
      /\ task[t].start \in DOMAIN hashCache
      /\ Head(task[t].blocks).hash \in DOMAIN bodyCache
      /\ Head(task[t].blocks).hash \notin DOMAIN headerCache
      /\ Head(task[t].blocks).number \notin DOMAIN hashCache
      /\ task[u].pc = "waitCheck"
      /\ task[u].number = Head(task[t].blocks).number

\* C19 (fails): every call of AddRange and RemoveRange returns and releases
\* the mutex, whatever unsigned from and to it is given.
C19_RangeCallsReturn ==
    /\ mu = "unlocked"
    /\ last.op \notin {"AddRangeHangs", "RemoveRangeHangs"}

====
